---------------------------- MODULE Spec2Model ----------------------------
(***************************************************************************)
(* The ishkul backend (src/backend): a FastAPI application over a MongoDB  *)
(* document store.  The model covers the application process (main.py),    *)
(* the persistence gateway (db/mongo.py), the request models               *)
(* (model/model.py) and the token helper (utils/token.py).                 *)
(*                                                                         *)
(* Every gateway call is one round trip to the shared store and is one     *)
(* atomic step.  /register makes two gateway calls (user_exists, then      *)
(* add_user); requests served by different worker processes interleave     *)
(* between those two calls.  All other handlers make at most one call.     *)
(***************************************************************************)
EXTENDS Integers, Sequences, FiniteSets, TLC

(***************************************************************************)
(* Bounds of the model.                                                    *)
(***************************************************************************)
NumWorkers  == 2   \* worker processes that serve /register concurrently
MaxWrites   == 2   \* POST /register and POST /contrib/exam_paper requests
                   \* admitted to their handlers in one run
MaxAdvances == 2   \* clock advances in the token specification

Workers == 1 .. NumWorkers
Salts   == {"salt1"}   \* the salts bcrypt.gensalt() draws from

\* The source pins no version of pydantic.  The major versions differ in
\* what a str field accepts and in what an HttpUrl field holds, so the
\* installed one is part of the state: it is chosen when the program is
\* built and never changes.
PydanticVersions == {1, 2}

VARIABLES
    pydantic    \* major version of the installed pydantic

(***************************************************************************)
(* JSON values of request bodies.  A body is a record of the fields that   *)
(* are present; each field holds a typed value.                            *)
(***************************************************************************)
Str(s)  == [t |-> "str",  v |-> s]
Bool(s) == [t |-> "bool", v |-> s]   \* the literal "true" or "false"
\* A JSON number, as json.loads parses it: a literal with no fraction and
\* no exponent is a Python int (-0 is the int 0); any other literal is a
\* float.  A float is held as its sign and its magnitude in thousandths
\* (1.50 and 1.5 are both NumFloat(FALSE, 1500), 1e2 is
\* NumFloat(FALSE, 100000), -0.0 is NumFloat(TRUE, 0)); floats with more
\* than three decimals are outside the model.
NumInt(n) == [t |-> "int", n |-> n]
NumFloat(neg, milli) == [t |-> "float", neg |-> neg, milli |-> milli]
Obj(s)  == [t |-> "obj",  v |-> s]   \* a JSON object of string values

Emails      == {"ann@x.io", "bob@x.io"}
Passwords   == {"pw1", "pw2"}
Urls        == {"http://x.io/p1", "http://x.io/p2"}
NotAnEmail  == "not-an-email"
NotAUrl     == "not a url"
Metadata    == "{subject: math}"

HasField(body, f) == f \in DOMAIN body

\* A str field takes a JSON string.  pydantic 1 also takes a number or a
\* boolean and stores str() of it; pydantic 2 rejects both.
IsStr(body, f) ==
    /\ HasField(body, f)
    /\ \/ body[f].t = "str"
       \/ pydantic = 1 /\ body[f].t \in {"int", "float", "bool"}

\* x written with at least `width` digits
Digits(x, width) ==
    IF width >= 3 /\ x < 10 THEN "00" \o ToString(x)
    ELSE IF width >= 2 /\ x < 10 THEN "0" \o ToString(x)
    ELSE IF width >= 3 /\ x < 100 THEN "0" \o ToString(x)
    ELSE ToString(x)

\* str() of a float: the sign, the integral part, and the decimals without
\* trailing zeros, of which at least one digit is written
float_str(val) ==
    LET whole == val.milli \div 1000
        frac  == val.milli % 1000
    IN  (IF val.neg THEN "-" ELSE "") \o ToString(whole) \o "." \o
        (IF frac % 100 = 0 THEN ToString(frac \div 100)
         ELSE IF frac % 10 = 0 THEN Digits(frac \div 10, 2)
         ELSE Digits(frac, 3))

\* the Python str a str field holds after validation
AsStr(val) ==
    CASE val.t = "bool"  -> (IF val.v = "true" THEN "True" ELSE "False")
      [] val.t = "int"   -> ToString(val.n)
      [] val.t = "float" -> float_str(val)
      [] OTHER           -> val.v

\* The spellings a bool field reads as True and as False.  Strings are
\* compared in lower case.
BoolTrueStrings  == {"1", "on", "t", "true", "y", "yes"}
BoolFalseStrings == {"0", "off", "f", "false", "n", "no"}

\* the lower-case letter of each upper-case letter of ASCII
LowerCaseOf ==
    [A |-> "a", B |-> "b", C |-> "c", D |-> "d", E |-> "e", F |-> "f",
     G |-> "g", H |-> "h", I |-> "i", J |-> "j", K |-> "k", L |-> "l",
     M |-> "m", N |-> "n", O |-> "o", P |-> "p", Q |-> "q", R |-> "r",
     S |-> "s", T |-> "t", U |-> "u", V |-> "v", W |-> "w", X |-> "x",
     Y |-> "y", Z |-> "z"]

\* str.lower() of one character (no character outside ASCII lower-cases to
\* a letter of the spellings above)
LowerChar(c) ==
    IF c \in DOMAIN LowerCaseOf THEN LowerCaseOf[c] ELSE c

\* str.lower()
RECURSIVE Lower(_)
Lower(s) ==
    IF Len(s) = 0 THEN ""
    ELSE LowerChar(SubSeq(s, 1, 1)) \o Lower(SubSeq(s, 2, Len(s)))

\* the number equals 1 (1, 1.0); the number equals 0 (0, 0.0, -0.0)
NumIsOne(val) ==
    \/ val.t = "int" /\ val.n = 1
    \/ val.t = "float" /\ ~val.neg /\ val.milli = 1000
NumIsZero(val) ==
    \/ val.t = "int" /\ val.n = 0
    \/ val.t = "float" /\ val.milli = 0

\* A bool field takes a JSON boolean, one of the strings above in any case,
\* or a number equal to 0 or to 1.
IsBool(body, f) ==
    /\ HasField(body, f)
    /\ \/ body[f].t = "bool"
       \/ body[f].t = "str"
          /\ Lower(body[f].v) \in BoolTrueStrings \cup BoolFalseStrings
       \/ NumIsOne(body[f])
       \/ NumIsZero(body[f])

\* the Python bool a bool field holds after validation
AsBool(val) ==
    CASE val.t = "bool" -> val.v = "true"
      [] val.t = "str"  -> Lower(val.v) \in BoolTrueStrings
      [] OTHER          -> NumIsOne(val)

IsStrDict(body, f) == HasField(body, f) /\ body[f].t = "obj"
\* pydantic EmailStr: a string with the syntax of an e-mail address
IsEmailStr(body, f) == IsStr(body, f) /\ AsStr(body[f]) \in Emails
\* pydantic HttpUrl: a string with the syntax of an absolute http(s) URL
IsHttpUrl(body, f)  == IsStr(body, f) /\ AsStr(body[f]) \in Urls

\* faulty variant: resource_url declared as a plain str
ExamPaperRequestStrUrl(body) ==
    /\ IsStrDict(body, "metadata")
    /\ IsStr(body, "resource_url")

ExamPaperRequest(body) ==
    /\ IsStrDict(body, "metadata")
    /\ IsHttpUrl(body, "resource_url")

RegisterAccountRequest(body) ==
    /\ IsStr(body, "first_name")
    /\ IsStr(body, "last_name")
    /\ IsEmailStr(body, "email")
    /\ IsStr(body, "password")
    /\ IsBool(body, "marketing_optin")

LoginRequest(body) ==
    /\ IsEmailStr(body, "email")
    /\ IsStr(body, "password")

RegBody(e, p) ==
    [first_name |-> Str("John"), last_name |-> Str("Doe"), email |-> Str(e),
     password |-> Str(p), marketing_optin |-> Bool("true")]

\* malformed email; password missing; marketing_optin of the wrong type,
\* a string that spells no boolean, a number other than 0 and 1
MalformedRegisterBodies ==
    {RegBody(NotAnEmail, "pw1"),
     [first_name |-> Str("John"), last_name |-> Str("Doe"),
      email |-> Str("ann@x.io"), marketing_optin |-> Bool("true")],
     [RegBody("ann@x.io", "pw1") EXCEPT !.marketing_optin = Obj("{}")],
     [RegBody("ann@x.io", "pw1") EXCEPT !.marketing_optin = Str("maybe")],
     [RegBody("ann@x.io", "pw1") EXCEPT !.marketing_optin = NumInt(2)]}

\* marketing_optin given as a string or a number that spells a boolean
CoercedRegisterBodies ==
    {[RegBody("ann@x.io", "pw1") EXCEPT !.marketing_optin = Str("fAlse")],
     [RegBody("bob@x.io", "pw2")
          EXCEPT !.marketing_optin = NumFloat(FALSE, 1000)]}

RegisterBodies ==
    {RegBody(e, p) : e \in Emails, p \in Passwords}
    \cup CoercedRegisterBodies
    \cup MalformedRegisterBodies

LoginBody(e, p) == [email |-> Str(e), password |-> Str(p)]

\* malformed email; password missing; password of the wrong type
MalformedLoginBodies ==
    {LoginBody(NotAnEmail, "pw1"), [email |-> Str("ann@x.io")],
     [email |-> Str("ann@x.io"), password |-> Obj("{}")]}

LoginBodies ==
    {LoginBody(e, p) : e \in Emails, p \in Passwords}
    \cup MalformedLoginBodies

PaperBody(u) == [metadata |-> Obj(Metadata), resource_url |-> Str(u)]

\* resource_url that is no URL; resource_url missing; metadata of the
\* wrong type
MalformedPaperBodies ==
    {PaperBody(NotAUrl), [metadata |-> Obj(Metadata)],
     [metadata |-> Str("math"), resource_url |-> Str("http://x.io/p1")]}

PaperBodies ==
    {PaperBody(u) : u \in Urls} \cup MalformedPaperBodies

NoBody == [none |-> Str("")]

(***************************************************************************)
(* Python values.                                                          *)
(***************************************************************************)
\* truth value of a dict: a dict is false only when it is empty
PyTruthy(d) == DOMAIN d # {}

\* bcrypt: the hash keeps the salt and is a one-way image of the password
hashpw(password, salt) == [salt |-> salt, of |-> password]
checkpw(password, hashed) == hashpw(password, hashed.salt) = hashed

b64encode(bytes) == <<"base64", bytes>>
b64decode(text)  == text[2]

\* bson.json_util.dumps followed by json.loads: binary fields become
\* {"$binary": {"base64": ..., "subType": "00"}}
json_util_dumps(doc) ==
    [doc EXCEPT !.hash = [binary |-> [base64 |-> b64encode(doc.hash),
                                      subType |-> "00"]]]

(***************************************************************************)
(* Tokens (utils/token.py).  Time is in whole seconds, the resolution of   *)
(* the "exp" claim of a token.                                             *)
(***************************************************************************)
SECRET_KEY == "super-secret-backend-key"
Hour == 60 * 60
Day  == 24 * Hour

NoPayload == [email |-> "", exp |-> -1]
\* a string that is not a token at all
Garbage == [wf |-> FALSE, payload |-> NoPayload, key |-> ""]
\* a well-formed token signed with another key
Forged(tok) == [tok EXCEPT !.key = "another-key"]

generate_jwt(email, t) ==
    [wf |-> TRUE, payload |-> [email |-> email, exp |-> t + Day],
     key |-> SECRET_KEY]

\* jwt.decode(token, SECRET_KEY, algorithms=["HS256"]): the exception it
\* raises, "" when it returns the payload
jwt_decode_error(tok, t) ==
    IF ~tok.wf THEN "DecodeError"
    ELSE IF tok.key # SECRET_KEY THEN "InvalidSignatureError"
    ELSE IF tok.payload.exp <= t THEN "ExpiredSignatureError"
    ELSE ""

\* Python values these functions return: None, False, a string, or the
\* decoded payload (a dict)
None      == [kind |-> "None",  str |-> "", payload |-> NoPayload]
PyFalse   == [kind |-> "False", str |-> "", payload |-> NoPayload]
PyStr(x)  == [kind |-> "str",   str |-> x,  payload |-> NoPayload]
PyDict(d) == [kind |-> "dict",  str |-> "", payload |-> d]

\* Outcome of a call: the exception that reached the caller ("" for none)
\* and the value returned
Returned(v) == [raised |-> "", value |-> v]
Raised(e)   == [raised |-> e, value |-> None]

\* every exception of jwt.decode is caught and printed; None is returned
decode_jwt(tok, t) ==
    IF jwt_decode_error(tok, t) = "" THEN Returned(PyDict(tok.payload))
    ELSE Returned(None)

\* validate calls the bare name decode_jwt.  The name is bound in the body
\* of class token only, which a method's scope does not see, and the module
\* defines no such global: the call raises NameError before anything is
\* decoded.
validate(tok, t) == Raised("NameError")

(***************************************************************************)
(* State.                                                                  *)
(***************************************************************************)
VARIABLES
    appState,   \* "stopped", "running" or "crashed": the application process
    dbUp,       \* whether the MongoDB server answers
    users,      \* released.users, in insertion order
    papers,     \* prerelease.exam_paper, in insertion order
    pend,       \* per worker: the /register request between its two calls
    last,       \* the HTTP exchange completed by the last step
    reglog,     \* history: completed /register requests that reached the handler
    acked,      \* history: exam papers acknowledged with status "success",
                \* in the order of the acknowledgements
    now,        \* wall clock, seconds; the endpoints read it only to stamp
                \* a token's expiry, and it moves in SpecToken
    tok,        \* token specification: the token generated last
    tokAt,      \* token specification: the time tok was generated at
    tres,       \* token specification: the last call and its outcome
    adv         \* token specification: clock advances made

vars == <<pydantic, appState, dbUp, users, papers, pend, last, reglog, acked,
          now, tok, tokAt, tres, adv>>
tokenVars == <<tok, tokAt, tres, adv>>
serverVars == <<pydantic, appState, dbUp, users, papers, pend, last, reglog,
               acked>>

NoToken == [wf |-> FALSE, payload |-> NoPayload, key |-> "-"]
NoCall  == [op |-> "none", arg |-> NoToken, at |-> 0, result |-> Returned(None)]
NoHash  == [salt |-> "", of |-> ""]
Idle    == [busy |-> FALSE, req |-> NoBody, hash |-> NoHash, calls |-> 0,
            gw |-> TRUE, after |-> 0, cnt0 |-> 0]

\* An exchange: the request, the response, and what the handler did.
\*   code 0: no response (nothing listens)
\*   calls:  gateway calls made;  gw: all of them were answered
\*   stored: a document was inserted
Exchange(op, req, code, status, detail, calls, gw, stored) ==
    [op |-> op, req |-> req, code |-> code, status |-> status,
     detail |-> detail, email |-> "", first_name |-> "", last_name |-> "",
     token |-> NoToken, data |-> <<>>, calls |-> calls, gw |-> gw,
     stored |-> stored]
NoExchange == Exchange("none", NoBody, 0, "", "", 0, TRUE, FALSE)

\* FastAPI's answer to a body that fails its request model
Unprocessable(op, body) ==
    Exchange(op, body, 422, "", "validation error", 0, TRUE, FALSE)
\* FastAPI's answer when the handler raises anything but HTTPException
ServerError(op, body, calls, gw) ==
    Exchange(op, body, 500, "", "Internal Server Error", calls, gw, FALSE)

Matching(email) == {i \in DOMAIN users : users[i].email = email}
Count(email) == Cardinality(Matching(email))

(***************************************************************************)
(* The persistence gateway (db/mongo.py).                                  *)
(***************************************************************************)
\* create_index('email'): an ordinary index; `unique` is not asked for, so
\* the server accepts an insert whatever the collection holds
create_index_unique == FALSE

\* count_documents({'email': email}) > 0; True when the call fails
user_exists(email) ==
    IF dbUp THEN Count(email) > 0 ELSE TRUE

\* insert_one on released.users: whether the server takes the document
InsertAccepted(email) ==
    dbUp /\ ~(create_index_unique /\ Count(email) > 0)

\* the tagged result add_user returns for an account with this email
add_user(email) ==
    IF InsertAccepted(email) THEN [success |-> TRUE]
    ELSE [success |-> FALSE, error |-> "PyMongoError"]

UserDoc(body, hash) ==
    [first_name |-> AsStr(body.first_name), last_name |-> AsStr(body.last_name),
     email |-> AsStr(body.email),
     marketing_optin |-> AsBool(body.marketing_optin),
     hash |-> hash]

\* find_one: the first matching document
get_user_by_email(email) ==
    IF ~dbUp THEN [success |-> FALSE, error |-> "PyMongoError"]
    ELSE IF Matching(email) = {} THEN [success |-> FALSE]
    ELSE LET i == CHOOSE i \in Matching(email) :
                      \A j \in Matching(email) : i <= j
         IN  [data |-> json_util_dumps(users[i]), success |-> TRUE]

PaperDoc(body) ==
    [metadata |-> body.metadata.v, resource_url |-> AsStr(body.resource_url)]

\* Whether bson can encode the resource_url the handler passes on.  With
\* pydantic 1 an HttpUrl is a str.  With pydantic 2 it is an object of its
\* own: insert_one raises InvalidDocument, which is no PyMongoError, so
\* Database.add_exam_paper does not catch it.
HttpUrlEncodable == pydantic = 1

\* Database.add_exam_paper: "ok" (inserted), "failed" (PyMongoError caught,
\* the failure result returned) or "raised" (InvalidDocument escapes).
\* The server is selected before the document is encoded, so an
\* unreachable server fails the call whatever the document holds.
add_exam_paper_outcome ==
    IF ~dbUp THEN "failed"
    ELSE IF ~HttpUrlEncodable THEN "raised"
    ELSE "ok"

(***************************************************************************)
(* The application process (main.py).                                      *)
(***************************************************************************)
Init ==
    /\ pydantic \in PydanticVersions
    /\ appState = "stopped"
    /\ dbUp = TRUE
    /\ users = <<>>
    /\ papers = <<>>
    /\ pend = [w \in Workers |-> Idle]
    /\ last = NoExchange
    /\ reglog = <<>>
    /\ acked = <<>>
    /\ now = 0
    /\ tok = NoToken
    /\ tokAt = 0
    /\ tres = NoCall
    /\ adv = 0

\* Importing main imports db.mongo: MongoClient(...) connects lazily, then
\* line 98 runs create_index, which needs the server.  Its error is not
\* caught, so the import fails and no application is served.
Start ==
    /\ appState \in {"stopped", "crashed"}
    /\ appState' = IF dbUp THEN "running" ELSE "crashed"
    /\ last' = NoExchange
    /\ UNCHANGED <<pydantic, dbUp, users, papers, pend, reglog, acked, now,
                   tokenVars>>

\* The MongoDB server becomes unreachable, or reachable again.
GatewayFlip ==
    /\ dbUp' = ~dbUp
    /\ last' = NoExchange
    /\ UNCHANGED <<pydantic, appState, users, papers, pend, reglog, acked, now,
                   tokenVars>>

Running == appState = "running"

health_check ==
    /\ Running
    /\ last' = Exchange("health", NoBody, 200, "healthy", "", 0, TRUE, FALSE)
    /\ UNCHANGED <<pydantic, appState, dbUp, users, papers, pend, reglog, acked,
                   now, tokenVars>>

\* GET /health sent after the process failed to start: nothing listens
HealthProbeRefused ==
    /\ appState = "crashed"
    /\ last' = Exchange("health", NoBody, 0, "", "", 0, TRUE, FALSE)
    /\ UNCHANGED <<pydantic, appState, dbUp, users, papers, pend, reglog, acked,
                   now, tokenVars>>

root ==
    /\ Running
    /\ last' = Exchange("root", NoBody, 200, "", "Hello, World!", 0, TRUE, FALSE)
    /\ UNCHANGED <<pydantic, appState, dbUp, users, papers, pend, reglog, acked,
                   now, tokenVars>>

\* write requests admitted so far: completed and in-flight registrations,
\* and exam-paper submissions
Admitted ==
    Len(reglog) + Cardinality({w \in Workers : pend[w].busy}) + Len(acked)

\* the worker that takes the next /register request
FreeWorker(w) ==
    ~pend[w].busy /\ \A v \in Workers : v < w => pend[v].busy

\* A completed /register request: its response, whether the gateway
\* answered its calls (gw), whether it inserted (stored), how many requests
\* had completed when it arrived (after), and the number of accounts with
\* its email when it arrived (cnt0) and when it was answered (cntEnd)
RegEntry(email, code, status, stored, gw, after, cnt0, cntEnd) ==
    [email |-> email, code |-> code, status |-> status, stored |-> stored,
     gw |-> gw, after |-> after, cnt0 |-> cnt0, cntEnd |-> cntEnd]

\* POST /register up to and including the user_exists call
RegisterBegin(w, body, salt) ==
    /\ Running
    /\ FreeWorker(w)
    /\ IF ~RegisterAccountRequest(body)
       THEN /\ last' = Unprocessable("register", body)
            /\ UNCHANGED <<pend, reglog>>
       ELSE /\ Admitted < MaxWrites
            /\ IF user_exists(AsStr(body.email))
               THEN /\ last' = Exchange("register", body, 409, "",
                                        "Email already in use", 1, dbUp, FALSE)
                    /\ reglog' = Append(reglog,
                           RegEntry(AsStr(body.email), 409, "", FALSE, dbUp,
                                    Len(reglog), Count(AsStr(body.email)),
                                    Count(AsStr(body.email))))
                    /\ UNCHANGED pend
               ELSE /\ pend' = [pend EXCEPT ![w] =
                           [busy |-> TRUE, req |-> body,
                            hash |-> hashpw(AsStr(body.password), salt),
                            calls |-> 1, gw |-> dbUp, after |-> Len(reglog),
                            cnt0 |-> Count(AsStr(body.email))]]
                    /\ last' = NoExchange
                    /\ UNCHANGED reglog
    /\ UNCHANGED <<pydantic, appState, dbUp, users, papers, acked, now,
                   tokenVars>>

\* POST /register from the add_user call to the response
RegisterInsert(w) ==
    /\ Running
    /\ pend[w].busy
    /\ LET body    == pend[w].req
           email   == AsStr(body.email)
           success == add_user(email)
           stored  == InsertAccepted(email)
           gw      == pend[w].gw /\ dbUp
           code    == IF ~PyTruthy(success) THEN 500 ELSE 200
       IN  /\ users' = IF stored
                       THEN Append(users, UserDoc(body, pend[w].hash))
                       ELSE users
           /\ last' = IF code = 500
                      THEN Exchange("register", body, 500, "",
                               "Registration failed. Please try again later.",
                               2, gw, stored)
                      ELSE Exchange("register", body, 200, "success",
                               "Registration successful", 2, gw, stored)
           /\ reglog' = Append(reglog,
                  RegEntry(email, code,
                           IF code = 200 THEN "success" ELSE "",
                           stored, gw, pend[w].after,
                           pend[w].cnt0,
                           Count(email) + (IF stored THEN 1 ELSE 0)))
    /\ pend' = [pend EXCEPT ![w] = Idle]
    /\ UNCHANGED <<pydantic, appState, dbUp, papers, acked, now, tokenVars>>

login_user(body) ==
    /\ Running
    /\ IF ~LoginRequest(body)
       THEN last' = Unprocessable("login", body)
       ELSE LET user == get_user_by_email(AsStr(body.email))
            IN  last' =
                  IF ~PyTruthy(user)
                  THEN Exchange("login", body, 404, "", "User not found",
                                1, dbUp, FALSE)
                  ELSE IF ~("data" \in DOMAIN user)      \* KeyError: 'data'
                  THEN ServerError("login", body, 1, dbUp)
                  ELSE IF ~checkpw(AsStr(body.password),
                                   b64decode(user.data.hash.binary.base64))
                  THEN Exchange("login", body, 401, "",
                                "Invalid email or password", 1, dbUp, FALSE)
                  ELSE [Exchange("login", body, 200, "", "", 1, dbUp, FALSE)
                          EXCEPT !.email = user.data.email,
                                 !.first_name = user.data.first_name,
                                 !.last_name = user.data.last_name,
                                 !.token = generate_jwt(user.data.email, now)]
    /\ UNCHANGED <<pydantic, appState, dbUp, users, papers, pend, reglog, acked,
                   now, tokenVars>>

\* POST /contrib/exam_paper: the result Database.add_exam_paper returns is
\* dropped; an exception it lets through ends the request with 500
add_exam_paper(body) ==
    /\ Running
    /\ IF ~ExamPaperRequest(body)
       THEN /\ last' = Unprocessable("add_exam_paper", body)
            /\ UNCHANGED <<papers, acked>>
       ELSE /\ Admitted < MaxWrites
            /\ IF add_exam_paper_outcome = "raised"
               THEN /\ last' = ServerError("add_exam_paper", body, 1, dbUp)
                    /\ UNCHANGED <<papers, acked>>
               ELSE /\ papers' = IF add_exam_paper_outcome = "ok"
                                 THEN Append(papers, PaperDoc(body))
                                 ELSE papers
                    /\ acked' = Append(acked, PaperDoc(body))
                    /\ last' = Exchange("add_exam_paper", body, 200, "success",
                                        "Exam paper added successfully", 1,
                                        dbUp, add_exam_paper_outcome = "ok")
    /\ UNCHANGED <<pydantic, appState, dbUp, users, pend, reglog, now,
                   tokenVars>>

\* GET /contrib/exam_paper: Database.get_exam_papers returns None on error,
\* which ExamPapersResponse (data: list) does not accept
get_exam_papers ==
    /\ Running
    /\ last' = IF dbUp
               THEN [Exchange("get_exam_papers", NoBody, 200, "success", "",
                              1, TRUE, FALSE) EXCEPT !.data = papers]
               ELSE ServerError("get_exam_papers", NoBody, 1, FALSE)
    /\ UNCHANGED <<pydantic, appState, dbUp, users, papers, pend, reglog, acked,
                   now, tokenVars>>

Next ==
    \/ Start
    \/ GatewayFlip
    \/ health_check
    \/ HealthProbeRefused
    \/ root
    \/ \E w \in Workers, body \in RegisterBodies, salt \in Salts :
           RegisterBegin(w, body, salt)
    \/ \E w \in Workers : RegisterInsert(w)
    \/ \E body \in LoginBodies : login_user(body)
    \/ \E body \in PaperBodies : add_exam_paper(body)
    \/ get_exam_papers

Spec == Init /\ [][Next]_vars

(***************************************************************************)
(* The token helper on its own (utils/token.py): no endpoint calls         *)
(* decode_jwt or validate, so they are applied here to the tokens a caller *)
(* can hold: the one generate_jwt returned, the same token signed with     *)
(* another key, and a string that is no token.                             *)
(***************************************************************************)
Delays == {1, Hour, Day - 1, Day, Day + Hour}
Holdings == {"issued", "forged", "garbage"}
Held(h) ==
    IF h = "issued" THEN tok
    ELSE IF h = "forged" THEN Forged(tok)
    ELSE Garbage

TokGenerate(email) ==
    /\ tok' = generate_jwt(email, now)
    /\ tokAt' = now
    /\ tres' = [op |-> "generate_jwt", arg |-> tok', at |-> now,
                result |-> Returned(None)]
    /\ UNCHANGED <<serverVars, now, adv>>

TokDecode(h) ==
    /\ tres' = [op |-> "decode_jwt", arg |-> Held(h), at |-> now,
                result |-> decode_jwt(Held(h), now)]
    /\ UNCHANGED <<serverVars, now, tok, tokAt, adv>>

TokValidate(h) ==
    /\ tres' = [op |-> "validate", arg |-> Held(h), at |-> now,
                result |-> validate(Held(h), now)]
    /\ UNCHANGED <<serverVars, now, tok, tokAt, adv>>

TokAdvance(d) ==
    /\ adv < MaxAdvances
    /\ adv' = adv + 1
    /\ now' = now + d
    /\ UNCHANGED <<serverVars, tok, tokAt, tres>>

TokenNext ==
    \/ \E email \in Emails : TokGenerate(email)
    \/ \E h \in Holdings : TokDecode(h)
    \/ \E h \in Holdings : TokValidate(h)
    \/ \E d \in Delays : TokAdvance(d)

SpecToken == Init /\ [][TokenNext]_vars

(***************************************************************************)
(* Properties.                                                             *)
(***************************************************************************)
RegIdx == DOMAIN reglog

\* i and j are two /register requests for the same email, j sent after i
\* was answered, i sent when no account had the email, and no other
\* /register request for the email was answered before j
SequentialPair(i, j) ==
    /\ i < j
    /\ reglog[i].email = reglog[j].email
    /\ reglog[j].after >= i
    /\ reglog[i].cnt0 = 0
    /\ \A k \in 1 .. (j - 1) : k # i => reglog[k].email # reglog[i].email

FirstAcceptedSecondConflicts(i, j) ==
    /\ reglog[i].code = 200
    /\ reglog[i].status = "success"
    /\ reglog[j].code = 409
    /\ ~reglog[j].stored
    /\ reglog[j].cntEnd = 1

\* C1: of two sequential /register requests for an email that has no
\* account, the first is answered 200 "success", the second 409 without an
\* insert, and exactly one account has the email afterwards.
RegisterTwiceAlways ==
    \A i \in RegIdx, j \in RegIdx :
        SequentialPair(i, j) => FirstAcceptedSecondConflicts(i, j)

\* What does hold of two sequential registrations: the same, when the
\* gateway answered both calls (user_exists and add_user) of the first
\* request.  When user_exists cannot reach the gateway it returns True and
\* the first request is answered 409; when add_user cannot, the handler
\* still answers 200 "success", nothing is stored, and the second request
\* is accepted as well.
RegisterTwiceWhenAnswered ==
    \A i \in RegIdx, j \in RegIdx :
        (SequentialPair(i, j) /\ reglog[i].gw)
            => FirstAcceptedSecondConflicts(i, j)

\* C2: in every reachable state at most one account has any given email.
EmailUnique ==
    \A e \in Emails : Count(e) <= 1

\* the request in `last` is a well-formed login whose lookup was answered
AnsweredLogin ==
    /\ last.op = "login"
    /\ LoginRequest(last.req)
    /\ last.gw

\* C3: for every account with the email of a login request: if the
\* request's password is the account's, the answer is 200 with the
\* account's email and names and a token whose subject is the email;
\* if it is not, the answer is 401 and carries no token.
LoginContract ==
    AnsweredLogin =>
        \A i \in Matching(AsStr(last.req.email)) :
            IF checkpw(AsStr(last.req.password), users[i].hash)
            THEN /\ last.code = 200
                 /\ last.email = users[i].email
                 /\ last.first_name = users[i].first_name
                 /\ last.last_name = users[i].last_name
                 /\ last.token.wf
                 /\ last.token.payload.email = users[i].email
            ELSE /\ last.code = 401
                 /\ last.token = NoToken

\* What does hold of /login: the contract of C3 for the account find_one
\* returns, which is the only one when emails are unique.
LoginContractWhenUnique ==
    EmailUnique => LoginContract

\* C4: a well-formed login for an email that has no account is answered
\* 404 "User not found", with no token.
LoginUnknownEmailNotFound ==
    (AnsweredLogin /\ Count(AsStr(last.req.email)) = 0)
        => /\ last.code = 404
           /\ last.detail = "User not found"
           /\ last.token = NoToken

\* the exchange x carries one of the malformed payloads
Malformed(x) ==
    \/ x.op = "register" /\ x.req \in MalformedRegisterBodies
    \/ x.op = "login" /\ x.req \in MalformedLoginBodies
    \/ x.op = "add_exam_paper" /\ x.req \in MalformedPaperBodies

\* C6: a step that answers a malformed payload answers it with the client
\* error 422, makes no gateway call and leaves the collections (and the
\* requests in flight) as they were.
ValidationFirst ==
    [][Malformed(last') =>
          /\ last'.code = 422
          /\ last'.calls = 0
          /\ UNCHANGED <<users, papers, pend, reglog, acked>>]_vars

ValidationFirstWitness ==
    /\ last.op = "add_exam_paper"
    /\ last.req = PaperBody(NotAUrl)
    /\ last.code = 422
    /\ Len(users) > 0

\* C7: every GET /health is answered 200 {status: "healthy"}, whatever the
\* gateway does, also when it was unreachable as the process started.
HealthAlwaysHealthy ==
    last.op = "health" => (last.code = 200 /\ last.status = "healthy")

\* What does hold of /health: a process that came up answers it whatever
\* the gateway does.
HealthWhileRunning ==
    (last.op = "health" /\ appState = "running")
        => (last.code = 200 /\ last.status = "healthy" /\ last.calls = 0)

\* C8: a listing (whose gateway call was answered) has status "success"
\* and holds every submission acknowledged with "success" before it.
AckedPapersListed ==
    (last.op = "get_exam_papers" /\ last.gw) =>
        /\ last.code = 200
        /\ last.status = "success"
        /\ \A k \in DOMAIN acked :
               \E m \in DOMAIN last.data : last.data[m] = acked[k]

\* C9: a /register request whose insert failed is answered 500 and never
\* "success"; a "success" answer means the account is stored.
FailedInsertReported ==
    (last.op = "register" /\ RegisterAccountRequest(last.req)) =>
        /\ (last.calls = 2 /\ ~last.stored) =>
               (last.code = 500 /\ last.status # "success")
        /\ last.status = "success" =>
               \E i \in Matching(AsStr(last.req.email)) :
                   checkpw(AsStr(last.req.password), users[i].hash)

\* the token t is signed with the server's key and not expired at time at
GoodToken(t, at) ==
    t.wf /\ t.key = SECRET_KEY /\ t.payload.exp > at

\* the call returned the subject email of its argument
YieldsSubject(c) ==
    /\ c.result.raised = ""
    /\ \/ /\ c.op = "decode_jwt"
          /\ c.result.value.kind = "dict"
          /\ c.result.value.payload.email = c.arg.payload.email
       \/ /\ c.op = "validate"
          /\ c.result.value = PyStr(c.arg.payload.email)

\* the call returned the invalid result
YieldsInvalid(c) ==
    /\ c.result.raised = ""
    /\ c.result.value \in {None, PyFalse}

Verification == {"decode_jwt", "validate"}

\* C5: a token generated at time T expires at exactly T + 24 hours;
\* verifying it before T + 24h yields its subject, after T + 24h the
\* invalid result.
TokenValidFor24h ==
    /\ tres.op = "generate_jwt" => tres.arg.payload.exp = tres.at + Day
    /\ (tres.op \in Verification /\ tok.wf /\ tres.arg = tok) =>
           /\ tres.at < tokAt + Day => YieldsSubject(tres)
           /\ tres.at > tokAt + Day => YieldsInvalid(tres)

\* What does hold of the expiry: C5 for decode_jwt alone.
DecodeJwtValidFor24h ==
    /\ tres.op = "generate_jwt" => tres.arg.payload.exp = tres.at + Day
    /\ (tres.op = "decode_jwt" /\ tok.wf /\ tres.arg = tok) =>
           /\ tres.at < tokAt + Day => YieldsSubject(tres)
           /\ tres.at >= tokAt + Day => YieldsInvalid(tres)

\* C10: verification never raises; it yields the subject of a correctly
\* signed, unexpired token and the one invalid result for anything else.
TokenFailsClosed ==
    tres.op \in Verification =>
        /\ tres.result.raised = ""
        /\ IF GoodToken(tres.arg, tres.at)
           THEN YieldsSubject(tres)
           ELSE YieldsInvalid(tres)

\* What does hold of verification: C10 for decode_jwt alone.
DecodeJwtFailsClosed ==
    tres.op = "decode_jwt" =>
        /\ tres.result.raised = ""
        /\ IF GoodToken(tres.arg, tres.at)
           THEN YieldsSubject(tres)
           ELSE tres.result.value = None

=============================================================================
